---- MODULE Spec2Model ----
(***************************************************************************)
(* Model of the two ControllerMapper programs of src/main.go:              *)
(*   Design A (lines 1-215):   button table incl. D-pad, triggers, analog  *)
(*                             stick with initial-delay/repeat emulation.  *)
(*   Design B (lines 217-428): button table, triggers, D-pad/stick merged  *)
(*                             into a direction bitmask, no repeat.        *)
(* One loop iteration of Run is one action (Tick); the deferred cleanup of *)
(* Run is one action per statement (one per visited map entry, Close,      *)
(* sdl.Quit); NewControllerMapper is one action per fallible call.         *)
(***************************************************************************)
EXTENDS Integers, Sequences, FiniteSets, TLC

VARIABLES
    design,            \* "A" or "B": which of the two programs runs
    pc,                \* position of main: see PcValues
    sdlUp,             \* sdl.Init succeeded and sdl.Quit not yet called
    ctrlOpen,          \* cm.controller is open
    running,           \* cm.running
    pressedKeys,       \* cm.pressedKeys: the keys of the map (all values true)
    analogState,       \* cm.analogState (A): direction -> bool, absent = false
    lastAnalogPress,   \* cm.lastAnalogPress (A): partial map direction -> ms
    currentDirection,  \* cm.currentDirection (B): bitmask
    now,               \* time.Now() of the last tick, in ms (A)
    quitPending,       \* a QuitEvent waits in the SDL event queue
    snap,              \* controller state read by the last tick
    prevSnap,          \* controller state read by the tick before the last
    ticks,             \* completed ticks: 0, 1, or 2 for two and more
    osDown,            \* Emitter side: keys whose last call was KeyDown
    calls,             \* Emitter calls of the last tick or cleanup step, in order
    cleanupCalls,      \* bag of the Emitter calls of the deferred function so far
    rangeTodo,         \* cleanup: map entries the range loop has yet to visit
    quitKeys,          \* pressedKeys at the moment the QuitEvent was observed
    holdStart,         \* per direction: time of the tick since which the stick
                       \* has been beyond the deadzone without interruption
    exitCode,          \* process exit status, -1 while the process lives
    initLog,           \* NewControllerMapper's calls so far: <<call, result>>
    alertCalls,        \* how often showAlert ran
    alertFailed,       \* some osascript run failed
    closeCalls,        \* how often controller.Close ran
    sdlQuitCalls       \* how often sdl.Quit ran

vars == <<design, pc, sdlUp, ctrlOpen, running, pressedKeys, analogState,
          lastAnalogPress, currentDirection, now, quitPending, snap, prevSnap,
          ticks, osDown, calls, cleanupCalls, rangeTodo, quitKeys, holdStart,
          exitCode, initLog, alertCalls, alertFailed, closeCalls, sdlQuitCalls>>

-----------------------------------------------------------------------------
(* Bounds of the model *)

\* Design A: the clock stops the loop after this many ticks.
MaxTicks == 3
\* Time between two reads of the clock by consecutive ticks, in ms: the
\* 10 ms sleep plus the time the scheduler adds.
TickGapMs == 250
\* Between two consecutive ticks at most this many inputs (buttons, axes)
\* of the controller change.
MaxChanges == 1

-----------------------------------------------------------------------------
(* Program constants *)

Int16 == -32768..32767

L2_AXIS == 4
R2_AXIS == 5
TRIGGER_THRESHOLD == 32767 \div 2
initialDelay == 500
repeatDelay == 50
deadzone == 8000
SleepMs == 10

analogDeadzone == 8000
triggerThreshold == 16383
leftTriggerAxis == 4
rightTriggerAxis == 5
DIR_NONE == 0
DIR_UP == 1
DIR_RIGHT == 2
DIR_DOWN == 4
DIR_LEFT == 8

\* SDL's enumeration values, as the code uses them
CONTROLLER_AXIS_LEFTX == 0
CONTROLLER_AXIS_LEFTY == 1
CONTROLLER_BUTTON_DPAD_UP == 11
CONTROLLER_BUTTON_DPAD_DOWN == 12
CONTROLLER_BUTTON_DPAD_LEFT == 13
CONTROLLER_BUTTON_DPAD_RIGHT == 14

Directions == {"up", "down", "left", "right"}

buttonMap_Dup ==
    [b \in 0..14 |->
        CASE b = 0 -> "shift" [] b = 1 -> "shift" [] b = 2 -> "LCTRL"
          [] b = 3 -> "x"     [] b = 4 -> "tab"   [] b = 5 -> "k"
          [] b = 6 -> "esc"   [] b = 7 -> "3"     [] b = 8 -> "2"
          [] b = 9 -> "q"     [] b = 10 -> "w"    [] b = 11 -> "up"
          [] b = 12 -> "down" [] b = 13 -> "left" [] b = 14 -> "right"]

\* Design A: buttonMap of Run
buttonMap ==
    [b \in 0..14 |->
        CASE b = 0 -> "shift" [] b = 1 -> "space" [] b = 2 -> "LCTRL"
          [] b = 3 -> "x"     [] b = 4 -> "tab"   [] b = 5 -> "k"
          [] b = 6 -> "esc"   [] b = 7 -> "3"     [] b = 8 -> "2"
          [] b = 9 -> "q"     [] b = 10 -> "w"    [] b = 11 -> "up"
          [] b = 12 -> "down" [] b = 13 -> "left" [] b = 14 -> "right"]

\* Design B: buttonKeyMap
buttonKeyMap ==
    [b \in 0..10 |->
        CASE b = 0 -> "shift" [] b = 1 -> "space" [] b = 2 -> "lctrl"
          [] b = 3 -> "x"     [] b = 4 -> "tab"   [] b = 5 -> "k"
          [] b = 6 -> "esc"   [] b = 7 -> "3"     [] b = 8 -> "2"
          [] b = 9 -> "q"     [] b = 10 -> "w"]

\* Design B: triggerKeyMap
triggerKeyMap ==
    [a \in {leftTriggerAxis, rightTriggerAxis} |->
        IF a = leftTriggerAxis THEN "a" ELSE "s"]

\* Design A: keyMap of handleAnalogDirection
keyMap == [d \in Directions |-> d]

Keys == {buttonMap[b] : b \in DOMAIN buttonMap}
        \cup {buttonKeyMap[b] : b \in DOMAIN buttonKeyMap}
        \cup {"a", "s"} \cup Directions

-----------------------------------------------------------------------------
(* The mapper's mutable state as one record, threaded through the methods:  *)
(* pressedKeys, analogState, lastAnalogPress, currentDirection are the      *)
(* fields of ControllerMapper; down and calls are the Emitter's side.       *)

\* robotgo.KeyDown(key)
KeyDown(m, key) ==
    [m EXCEPT !.down = @ \cup {key}, !.calls = Append(@, <<"keyDown", key>>)]

\* robotgo.KeyUp(key)
KeyUp(m, key) ==
    [m EXCEPT !.down = @ \ {key}, !.calls = Append(@, <<"keyUp", key>>)]

pressKey_NoInsert(m, key) ==
    IF key \notin m.pressedKeys THEN KeyDown(m, key) ELSE m

pressKey_NoGuard(m, key) ==
    [KeyDown(m, key) EXCEPT !.pressedKeys = @ \cup {key}]

\* pressKey (both designs)
pressKey(m, key) ==
    IF key \notin m.pressedKeys
    THEN [KeyDown(m, key) EXCEPT !.pressedKeys = @ \cup {key}]
    ELSE m

releaseKey_NoGuard(m, key) ==
    [KeyUp(m, key) EXCEPT !.pressedKeys = @ \ {key}]

\* releaseKey (both designs)
releaseKey(m, key) ==
    IF key \in m.pressedKeys
    THEN [KeyUp(m, key) EXCEPT !.pressedKeys = @ \ {key}]
    ELSE m

-----------------------------------------------------------------------------
(* Design A *)

handleAnalogDirection_KeepStamp(m, direction, isActive, t) ==
    LET key == keyMap[direction] IN
    IF isActive
    THEN IF ~m.analogState[direction]
         THEN [pressKey(m, key) EXCEPT
                  !.analogState = [@ EXCEPT ![direction] = TRUE],
                  !.lastAnalogPress =
                      [d \in DOMAIN @ \cup {direction} |->
                          IF d = direction THEN t ELSE @[d]]]
         ELSE LET timeSinceLast == t - m.lastAnalogPress[direction] IN
              IF timeSinceLast >= initialDelay
              THEN [pressKey(releaseKey(m, key), key) EXCEPT
                       !.lastAnalogPress =
                           [@ EXCEPT ![direction] =
                               t + (-initialDelay + repeatDelay)]]
              ELSE m
    ELSE IF m.analogState[direction]
         THEN [releaseKey(m, key) EXCEPT
                  !.analogState = [@ EXCEPT ![direction] = FALSE]]
         ELSE m

\* handleAnalogDirection(direction, isActive), with t the value of time.Now()
handleAnalogDirection(m, direction, isActive, t) ==
    LET key == keyMap[direction] IN
    IF isActive
    THEN IF ~m.analogState[direction]
         THEN [pressKey(m, key) EXCEPT
                  !.analogState = [@ EXCEPT ![direction] = TRUE],
                  !.lastAnalogPress =
                      [d \in DOMAIN @ \cup {direction} |->
                          IF d = direction THEN t ELSE @[d]]]
         ELSE LET timeSinceLast == t - m.lastAnalogPress[direction] IN
              IF timeSinceLast >= initialDelay
              THEN [pressKey(releaseKey(m, key), key) EXCEPT
                       !.lastAnalogPress =
                           [@ EXCEPT ![direction] =
                               t + (-initialDelay + repeatDelay)]]
              ELSE m
    ELSE IF m.analogState[direction]
         THEN [releaseKey(m, key) EXCEPT
                  !.analogState = [@ EXCEPT ![direction] = FALSE],
                  !.lastAnalogPress =
                      [d \in DOMAIN @ \ {direction} |-> @[d]]]
         ELSE m

StickRight(x) == x > deadzone
StickLeft(x) == x < -deadzone
StickDown(y) == y > deadzone
StickUp(y) == y < -deadzone

\* handleAnalogStick(x, y)
handleAnalogStick(m, x, y, t) ==
    LET m1 == handleAnalogDirection(m, "right", StickRight(x), t)
        m2 == handleAnalogDirection(m1, "left", StickLeft(x), t)
        m3 == handleAnalogDirection(m2, "down", StickDown(y), t)
    IN  handleAnalogDirection(m3, "up", StickUp(y), t)

areTriggersPressed_AtLeast(s) ==
    [l2Pressed |-> s.axis[L2_AXIS] >= TRIGGER_THRESHOLD,
     r2Pressed |-> s.axis[R2_AXIS] >= TRIGGER_THRESHOLD]

\* areTriggersPressed(gameController), s being the controller's state
areTriggersPressed(s) ==
    [l2Pressed |-> s.axis[L2_AXIS] > TRIGGER_THRESHOLD,
     r2Pressed |-> s.axis[R2_AXIS] > TRIGGER_THRESHOLD]

\* "for button, key := range table": the entries visited in the given order
RECURSIVE buttonLoop(_, _, _, _)
buttonLoop(m, table, order, s) ==
    IF order = <<>> THEN m
    ELSE LET button == Head(order)
             key == table[button]
         IN  buttonLoop(IF button \in s.buttons
                        THEN pressKey(m, key)
                        ELSE releaseKey(m, key),
                        table, Tail(order), s)

\* Run (A), one iteration of the loop after the event drain saw no QuitEvent
RunIterationA(m, order, s, t) ==
    LET m1 == buttonLoop(m, buttonMap, order, s)
        tr == areTriggersPressed(s)
        m2 == IF tr.l2Pressed THEN pressKey(m1, "a") ELSE releaseKey(m1, "a")
        m3 == IF tr.r2Pressed THEN pressKey(m2, "s") ELSE releaseKey(m2, "s")
    IN  handleAnalogStick(m3, s.axis[CONTROLLER_AXIS_LEFTX],
                          s.axis[CONTROLLER_AXIS_LEFTY], t)

-----------------------------------------------------------------------------
(* Design B *)

\* direction&bit != 0, for a single-bit constant
HasBit(direction, bit) == (direction \div bit) % 2 = 1

\* direction |= bit, for a single-bit constant
OrBit(direction, bit) == IF HasBit(direction, bit) THEN direction ELSE direction + bit

\* math.Abs(float64(v)): exact for every int16
Abs(v) == IF v < 0 THEN -v ELSE v

\* handleDirectionalInputs: the D-pad part of the mask
DpadMask(s) ==
    LET d1 == IF CONTROLLER_BUTTON_DPAD_UP \in s.buttons
              THEN OrBit(DIR_NONE, DIR_UP) ELSE DIR_NONE
        d2 == IF CONTROLLER_BUTTON_DPAD_DOWN \in s.buttons
              THEN OrBit(d1, DIR_DOWN) ELSE d1
        d3 == IF CONTROLLER_BUTTON_DPAD_LEFT \in s.buttons
              THEN OrBit(d2, DIR_LEFT) ELSE d2
    IN  IF CONTROLLER_BUTTON_DPAD_RIGHT \in s.buttons
        THEN OrBit(d3, DIR_RIGHT) ELSE d3

StickMask_Inclusive(direction, x, y) ==
    IF Abs(x) >= analogDeadzone \/ Abs(y) >= analogDeadzone
    THEN LET dx == IF x >= analogDeadzone THEN OrBit(direction, DIR_RIGHT)
                   ELSE IF x <= -analogDeadzone THEN OrBit(direction, DIR_LEFT)
                   ELSE direction
         IN  IF y >= analogDeadzone THEN OrBit(dx, DIR_DOWN)
             ELSE IF y <= -analogDeadzone THEN OrBit(dx, DIR_UP)
             ELSE dx
    ELSE direction

\* handleDirectionalInputs: the analog stick part, OR-ed into direction
StickMask(direction, x, y) ==
    IF Abs(x) > analogDeadzone \/ Abs(y) > analogDeadzone
    THEN LET dx == IF x > analogDeadzone THEN OrBit(direction, DIR_RIGHT)
                   ELSE IF x < -analogDeadzone THEN OrBit(direction, DIR_LEFT)
                   ELSE direction
         IN  IF y > analogDeadzone THEN OrBit(dx, DIR_DOWN)
             ELSE IF y < -analogDeadzone THEN OrBit(dx, DIR_UP)
             ELSE dx
    ELSE direction

handleDirectionalInputs_StickOverrides(m, s) ==
    LET stick == StickMask(DIR_NONE, s.axis[CONTROLLER_AXIS_LEFTX],
                           s.axis[CONTROLLER_AXIS_LEFTY])
        direction == IF stick # DIR_NONE THEN stick ELSE DpadMask(s)
        m1 == IF HasBit(direction, DIR_UP)
              THEN pressKey(m, "up") ELSE releaseKey(m, "up")
        m2 == IF HasBit(direction, DIR_DOWN)
              THEN pressKey(m1, "down") ELSE releaseKey(m1, "down")
        m3 == IF HasBit(direction, DIR_LEFT)
              THEN pressKey(m2, "left") ELSE releaseKey(m2, "left")
        m4 == IF HasBit(direction, DIR_RIGHT)
              THEN pressKey(m3, "right") ELSE releaseKey(m3, "right")
    IN  [m4 EXCEPT !.currentDirection = direction]

\* handleDirectionalInputs
handleDirectionalInputs(m, s) ==
    LET direction == StickMask(DpadMask(s), s.axis[CONTROLLER_AXIS_LEFTX],
                               s.axis[CONTROLLER_AXIS_LEFTY])
        m1 == IF HasBit(direction, DIR_UP)
              THEN pressKey(m, "up") ELSE releaseKey(m, "up")
        m2 == IF HasBit(direction, DIR_DOWN)
              THEN pressKey(m1, "down") ELSE releaseKey(m1, "down")
        m3 == IF HasBit(direction, DIR_LEFT)
              THEN pressKey(m2, "left") ELSE releaseKey(m2, "left")
        m4 == IF HasBit(direction, DIR_RIGHT)
              THEN pressKey(m3, "right") ELSE releaseKey(m3, "right")
    IN  [m4 EXCEPT !.currentDirection = direction]

handleButtons_NoRelease(m, order, s) ==
    buttonLoop(m, buttonKeyMap, SelectSeq(order, LAMBDA b : b \in s.buttons), s)

\* handleButtons
handleButtons(m, order, s) == buttonLoop(m, buttonKeyMap, order, s)

\* handleTriggers: "for axis, key := range triggerKeyMap" in the given order
RECURSIVE handleTriggers(_, _, _)
handleTriggers(m, order, s) ==
    IF order = <<>> THEN m
    ELSE LET axis == Head(order)
             key == triggerKeyMap[axis]
         IN  handleTriggers(IF s.axis[axis] > triggerThreshold
                            THEN pressKey(m, key)
                            ELSE releaseKey(m, key),
                            Tail(order), s)

\* Run (B), one iteration of the loop after the event drain saw no QuitEvent
RunIterationB(m, order, trigOrder, s) ==
    handleTriggers(handleButtons(handleDirectionalInputs(m, s), order, s),
                   trigOrder, s)

-----------------------------------------------------------------------------
(* The controller's state as one tick reads it *)

Snapshot(bs, x, y, l2, r2) ==
    [buttons |-> bs,
     axis |-> [a \in {CONTROLLER_AXIS_LEFTX, CONTROLLER_AXIS_LEFTY,
                      L2_AXIS, R2_AXIS} |->
                  CASE a = CONTROLLER_AXIS_LEFTX -> x
                    [] a = CONTROLLER_AXIS_LEFTY -> y
                    [] a = L2_AXIS -> l2
                    [] a = R2_AXIS -> r2]]

Neutral == Snapshot({}, 0, 0, 0, 0)

\* The inputs the environment moves: one plain button, the D-pad's up,
\* stick and trigger values on both sides of each threshold.
PressableButtons == {0, CONTROLLER_BUTTON_DPAD_UP}
StickXValues == {-20000, 0, 8001}
StickYValues == {-8001, 0, 20000}
TriggerLValues == {0, 20000}
TriggerRValues == {0, 16384}

Snapshots ==
    {Snapshot(bs, x, y, l2, r2) :
        bs \in SUBSET PressableButtons, x \in StickXValues, y \in StickYValues,
        l2 \in TriggerLValues, r2 \in TriggerRValues}

\* How many inputs differ between two controller states
Changes(s1, s2) ==
    Cardinality((s1.buttons \ s2.buttons) \cup (s2.buttons \ s1.buttons))
    + Cardinality({a \in DOMAIN s1.axis : s1.axis[a] # s2.axis[a]})

\* The orders in which a range over a Go map of n int keys 0..n-1 may visit
Ascending(n) == [i \in 1..n |-> i - 1]
Descending(n) == [i \in 1..n |-> n - i]
VisitOrders(n) == {Ascending(n), Descending(n)}
TriggerOrders == {<<leftTriggerAxis, rightTriggerAxis>>,
                  <<rightTriggerAxis, leftTriggerAxis>>}

\* Is the stick of s beyond the deadzone in direction d
StickBeyond(d, s) ==
    CASE d = "right" -> s.axis[0] > 8000
      [] d = "left" -> s.axis[0] < -8000
      [] d = "down" -> s.axis[1] > 8000
      [] d = "up" -> s.axis[1] < -8000

-----------------------------------------------------------------------------
(* Initial state and actions *)

PcValues == {"start", "sdlInited", "haveJoystick", "initFailed", "constructed",
             "running", "sampling", "cleanupKeys", "cleanupClose", "cleanupQuit",
             "returned", "exited"}

Fresh ==
    /\ sdlUp = FALSE /\ ctrlOpen = FALSE /\ running = FALSE
    /\ pressedKeys = {}
    /\ analogState = [d \in Directions |-> FALSE]
    /\ lastAnalogPress = <<>>
    /\ currentDirection = DIR_NONE
    /\ now = 0
    /\ quitPending = FALSE
    /\ snap = Neutral /\ prevSnap = Neutral /\ ticks = 0
    /\ osDown = {} /\ calls = <<>> /\ cleanupCalls = <<>>
    /\ rangeTodo = {} /\ quitKeys = {}
    /\ holdStart = <<>>
    /\ exitCode = -1
    /\ initLog = <<>> /\ alertCalls = 0 /\ alertFailed = FALSE
    /\ closeCalls = 0 /\ sdlQuitCalls = 0

Init ==
    /\ design \in {"A", "B"}
    /\ pc = "start"
    /\ Fresh

\* showAlert(message): cmd.Run() may fail, its error is dropped
showAlert ==
    /\ alertCalls' = alertCalls + 1
    /\ \E failed \in BOOLEAN : alertFailed' = (alertFailed \/ failed)

\* NewControllerMapper: sdl.Init
SdlInit ==
    /\ pc = "start"
    /\ \E ok \in BOOLEAN :
          /\ initLog' = Append(initLog, <<"sdl.Init", ok>>)
          /\ IF ok
             THEN pc' = "sdlInited" /\ sdlUp' = TRUE
                  /\ UNCHANGED <<alertCalls, alertFailed>>
             ELSE pc' = "initFailed" /\ showAlert /\ UNCHANGED sdlUp
    /\ UNCHANGED <<design, ctrlOpen, running, pressedKeys, analogState,
                   lastAnalogPress, currentDirection, now, quitPending, snap,
                   prevSnap, ticks, osDown, calls, cleanupCalls, rangeTodo, quitKeys, holdStart,
                   exitCode, closeCalls, sdlQuitCalls>>

\* What sdl.NumJoysticks() may return: no joystick, or some (only joystick 0
\* is ever opened)
JoystickCounts == {0, 1}

\* NewControllerMapper: sdl.NumJoysticks() < 1
NumJoysticks ==
    /\ pc = "sdlInited"
    /\ \E n \in JoystickCounts :
          /\ initLog' = Append(initLog, <<"sdl.NumJoysticks", n>>)
          /\ IF n < 1
             THEN pc' = "initFailed" /\ showAlert
             ELSE pc' = "haveJoystick" /\ UNCHANGED <<alertCalls, alertFailed>>
    /\ UNCHANGED <<design, sdlUp, ctrlOpen, running, pressedKeys, analogState,
                   lastAnalogPress, currentDirection, now, quitPending, snap,
                   prevSnap, ticks, osDown, calls, cleanupCalls, rangeTodo, quitKeys, holdStart,
                   exitCode, closeCalls, sdlQuitCalls>>

\* NewControllerMapper: sdl.GameControllerOpen(0) and the returned mapper
GameControllerOpen ==
    /\ pc = "haveJoystick"
    /\ \E ok \in BOOLEAN :
          /\ initLog' = Append(initLog, <<"sdl.GameControllerOpen", ok>>)
          /\ IF ok
             THEN /\ pc' = "constructed"
                  /\ ctrlOpen' = TRUE
                  /\ running' = TRUE
                  /\ pressedKeys' = {}
                  /\ analogState' = [d \in Directions |-> FALSE]
                  /\ lastAnalogPress' = <<>>
                  /\ currentDirection' = DIR_NONE
                  /\ UNCHANGED <<alertCalls, alertFailed>>
             ELSE /\ pc' = "initFailed"
                  /\ showAlert
                  /\ UNCHANGED <<ctrlOpen, running, pressedKeys, analogState,
                                 lastAnalogPress, currentDirection>>
    /\ UNCHANGED <<design, sdlUp, now, quitPending, snap, prevSnap, ticks, osDown,
                   calls, cleanupCalls, rangeTodo, quitKeys, holdStart, exitCode,
                   closeCalls, sdlQuitCalls>>

MainFatal_Continue ==
    /\ pc = "initFailed"
    /\ showAlert
    /\ pc' = "constructed"
    /\ running' = TRUE
    /\ UNCHANGED <<design, sdlUp, ctrlOpen, pressedKeys, analogState,
                   lastAnalogPress, currentDirection, now, quitPending, snap,
                   prevSnap, ticks, osDown, calls, cleanupCalls, rangeTodo,
                   quitKeys, holdStart, exitCode, initLog, closeCalls,
                   sdlQuitCalls>>

\* main: err != nil: showAlert, log.Fatalf (exit status 1)
MainFatal ==
    /\ pc = "initFailed"
    /\ showAlert
    /\ exitCode' = 1
    /\ pc' = "exited"
    /\ UNCHANGED <<design, sdlUp, ctrlOpen, running, pressedKeys, analogState,
                   lastAnalogPress, currentDirection, now, quitPending, snap,
                   prevSnap, ticks, osDown, calls, cleanupCalls, rangeTodo, quitKeys, holdStart,
                   initLog, closeCalls, sdlQuitCalls>>

\* main: mapper.Run() is entered
EnterRun ==
    /\ pc = "constructed"
    /\ pc' = "running"
    /\ UNCHANGED <<design, sdlUp, ctrlOpen, running, pressedKeys, analogState,
                   lastAnalogPress, currentDirection, now, quitPending, snap,
                   prevSnap, ticks, osDown, calls, cleanupCalls, rangeTodo, quitKeys, holdStart,
                   exitCode, initLog, alertCalls, alertFailed, closeCalls,
                   sdlQuitCalls>>

\* The environment posts a QuitEvent to the SDL event queue
DeliverQuit ==
    /\ sdlUp
    /\ pc \in {"constructed", "running", "sampling"}
    /\ ~quitPending
    /\ quitPending' = TRUE
    /\ UNCHANGED <<design, pc, sdlUp, ctrlOpen, running, pressedKeys,
                   analogState, lastAnalogPress, currentDirection, now, snap,
                   prevSnap, ticks, osDown, calls, cleanupCalls, rangeTodo, quitKeys, holdStart,
                   exitCode, initLog, alertCalls, alertFailed, closeCalls,
                   sdlQuitCalls>>

\* The mapper and the Emitter as the record the methods work on
Mapper ==
    [pressedKeys |-> pressedKeys, analogState |-> analogState,
     lastAnalogPress |-> lastAnalogPress,
     currentDirection |-> currentDirection, down |-> osDown, calls |-> <<>>]

\* The bag b with the calls of the sequence cs added
RECURSIVE AddCalls(_, _)
AddCalls(b, cs) ==
    IF cs = <<>> THEN b
    ELSE LET c == Head(cs)
             b1 == [x \in DOMAIN b \cup {c} |->
                       (IF x \in DOMAIN b THEN b[x] ELSE 0)
                       + (IF x = c THEN 1 ELSE 0)]
         IN  AddCalls(b1, Tail(cs))

\* Observer: for each direction whose stick reading is beyond the deadzone
\* without interruption since a tick that found the direction idle (key
\* released, analogState false), the clock reading of that tick
HoldStarts(s, t) ==
    LET fresh(d) == /\ ticks = 0 \/ ~StickBeyond(d, snap)
                    /\ d \notin pressedKeys
                    /\ ~analogState[d]
        held == {d \in Directions :
                    StickBeyond(d, s) /\ (d \in DOMAIN holdStart \/ fresh(d))}
    IN  [d \in held |-> IF d \in DOMAIN holdStart THEN holdStart[d] ELSE t]

\* Run: the body of one iteration after its event drain: the controller
\* reads s, the clock reads now + gap (A)
Iteration(S, gap, limit, observe) ==
    /\ \E s \in S :
          /\ ticks > 0 => Changes(snap, s) <= MaxChanges
          /\ snap' = s
          /\ IF design = "A"
             THEN /\ now + gap <= limit
                  /\ now' = now + gap
                  /\ holdStart' = IF observe THEN HoldStarts(s, now + gap)
                                            ELSE holdStart
                  /\ \E order \in VisitOrders(15) :
                        \E m \in {RunIterationA(Mapper, order, s, now + gap)} :
                        /\ pressedKeys' = m.pressedKeys
                        /\ analogState' = m.analogState
                        /\ lastAnalogPress' = m.lastAnalogPress
                        /\ currentDirection' = m.currentDirection
                        /\ osDown' = m.down
                        /\ calls' = m.calls
             ELSE /\ UNCHANGED <<now, holdStart>>
                  /\ \E order \in VisitOrders(11), trigOrder \in TriggerOrders :
                        \E m \in {RunIterationB(Mapper, order, trigOrder, s)} :
                        /\ pressedKeys' = m.pressedKeys
                        /\ analogState' = m.analogState
                        /\ lastAnalogPress' = m.lastAnalogPress
                        /\ currentDirection' = m.currentDirection
                        /\ osDown' = m.down
                        /\ calls' = m.calls
    /\ prevSnap' = snap
    /\ ticks' = IF ticks < 2 THEN ticks + 1 ELSE ticks
    /\ UNCHANGED <<design, sdlUp, ctrlOpen, running, quitPending,
                   cleanupCalls, rangeTodo, quitKeys, exitCode, initLog, alertCalls,
                   alertFailed, closeCalls, sdlQuitCalls>>

\* Run: one iteration whose event drain meets no QuitEvent, as one step
Tick(S, gap, limit, observe) ==
    /\ pc = "running" /\ running /\ ~quitPending
    /\ Iteration(S, gap, limit, observe)
    /\ UNCHANGED pc

\* Run: the event drain of an iteration ends without having met a QuitEvent
\* (A: the clock allows another iteration)
DrainEvents(gap, limit) ==
    /\ pc = "running" /\ running /\ ~quitPending
    /\ design = "A" => now + gap <= limit
    /\ pc' = "sampling"
    /\ UNCHANGED <<design, sdlUp, ctrlOpen, running, pressedKeys, analogState,
                   lastAnalogPress, currentDirection, now, quitPending, snap,
                   prevSnap, ticks, osDown, calls, cleanupCalls, rangeTodo,
                   quitKeys, holdStart, exitCode, initLog, alertCalls,
                   alertFailed, closeCalls, sdlQuitCalls>>

\* Run: the rest of the iteration after the drain, up to the sleep; a
\* QuitEvent posted meanwhile stays in the queue
Sample(S, gap, limit) ==
    /\ pc = "sampling"
    /\ Iteration(S, gap, limit, FALSE)
    /\ pc' = "running"

ObserveQuit_Interrupt ==
    /\ pc \in {"running", "sampling"} /\ running /\ quitPending
    /\ quitPending' = FALSE
    /\ running' = FALSE
    /\ pc' = "cleanupKeys"
    /\ quitKeys' = pressedKeys
    /\ rangeTodo' = pressedKeys
    /\ calls' = <<>>
    /\ cleanupCalls' = <<>>
    /\ UNCHANGED <<design, sdlUp, ctrlOpen, pressedKeys, analogState,
                   lastAnalogPress, currentDirection, now, snap, prevSnap, ticks,
                   osDown, holdStart, exitCode, initLog, alertCalls,
                   alertFailed, closeCalls, sdlQuitCalls>>

ObserveQuit_Ignore ==
    /\ pc = "running" /\ running /\ quitPending
    /\ quitPending' = FALSE
    /\ UNCHANGED <<design, pc, sdlUp, ctrlOpen, running, pressedKeys,
                   analogState, lastAnalogPress, currentDirection, now, snap,
                   prevSnap, ticks, osDown, calls, cleanupCalls, rangeTodo,
                   quitKeys, holdStart, exitCode, initLog, alertCalls,
                   alertFailed, closeCalls, sdlQuitCalls>>

\* Run: the event drain meets a QuitEvent: running = false, return; the
\* deferred function starts its range over pressedKeys
ObserveQuit ==
    /\ pc = "running" /\ running /\ quitPending
    /\ quitPending' = FALSE
    /\ running' = FALSE
    /\ pc' = "cleanupKeys"
    /\ quitKeys' = pressedKeys
    /\ rangeTodo' = pressedKeys
    /\ calls' = <<>>
    /\ cleanupCalls' = <<>>
    /\ UNCHANGED <<design, sdlUp, ctrlOpen, pressedKeys, analogState,
                   lastAnalogPress, currentDirection, now, snap, prevSnap, ticks,
                   osDown, holdStart, exitCode, initLog, alertCalls,
                   alertFailed, closeCalls, sdlQuitCalls>>

\* deferred: one step of "for key := range cm.pressedKeys { releaseKey(key) }"
CleanupRelease ==
    /\ pc = "cleanupKeys"
    /\ rangeTodo # {}
    /\ \E key \in rangeTodo :
          \E m \in {releaseKey(Mapper, key)} :
          /\ pressedKeys' = m.pressedKeys
          /\ osDown' = m.down
          /\ calls' = m.calls
          /\ cleanupCalls' = AddCalls(cleanupCalls, m.calls)
          /\ rangeTodo' = (rangeTodo \ {key}) \cap m.pressedKeys
    /\ UNCHANGED <<design, pc, sdlUp, ctrlOpen, running, analogState,
                   lastAnalogPress, currentDirection, now, quitPending, snap,
                   prevSnap, ticks, quitKeys, holdStart, exitCode, initLog,
                   alertCalls, alertFailed, closeCalls, sdlQuitCalls>>

CleanupRangeDone_Early ==
    /\ pc = "cleanupKeys"
    /\ pc' = "cleanupClose"
    /\ UNCHANGED <<design, sdlUp, ctrlOpen, running, pressedKeys, analogState,
                   lastAnalogPress, currentDirection, now, quitPending, snap,
                   prevSnap, ticks, osDown, calls, cleanupCalls, rangeTodo,
                   quitKeys, holdStart, exitCode, initLog, alertCalls,
                   alertFailed, closeCalls, sdlQuitCalls>>

\* deferred: the range is over
CleanupRangeDone ==
    /\ pc = "cleanupKeys"
    /\ rangeTodo = {}
    /\ pc' = "cleanupClose"
    /\ UNCHANGED <<design, sdlUp, ctrlOpen, running, pressedKeys, analogState,
                   lastAnalogPress, currentDirection, now, quitPending, snap,
                   prevSnap, ticks, osDown, calls, cleanupCalls, rangeTodo, quitKeys, holdStart,
                   exitCode, initLog, alertCalls, alertFailed, closeCalls,
                   sdlQuitCalls>>

CleanupClose_Leak ==
    /\ pc = "cleanupClose"
    /\ pc' = "cleanupQuit"
    /\ UNCHANGED <<design, sdlUp, ctrlOpen, running, pressedKeys, analogState,
                   lastAnalogPress, currentDirection, now, quitPending, snap,
                   prevSnap, ticks, osDown, calls, cleanupCalls, rangeTodo,
                   quitKeys, holdStart, exitCode, initLog, alertCalls,
                   alertFailed, closeCalls, sdlQuitCalls>>

\* deferred: cm.controller.Close()
CleanupClose ==
    /\ pc = "cleanupClose"
    /\ ctrlOpen' = FALSE
    /\ closeCalls' = closeCalls + 1
    /\ pc' = "cleanupQuit"
    /\ UNCHANGED <<design, sdlUp, running, pressedKeys, analogState,
                   lastAnalogPress, currentDirection, now, quitPending, snap,
                   prevSnap, ticks, osDown, calls, cleanupCalls, rangeTodo, quitKeys, holdStart,
                   exitCode, initLog, alertCalls, alertFailed, sdlQuitCalls>>

\* deferred: sdl.Quit(); Run returns
CleanupSdlQuit ==
    /\ pc = "cleanupQuit"
    /\ sdlUp' = FALSE
    /\ sdlQuitCalls' = sdlQuitCalls + 1
    /\ pc' = "returned"
    /\ UNCHANGED <<design, ctrlOpen, running, pressedKeys, analogState,
                   lastAnalogPress, currentDirection, now, quitPending, snap,
                   prevSnap, ticks, osDown, calls, cleanupCalls, rangeTodo, quitKeys, holdStart,
                   exitCode, initLog, alertCalls, alertFailed, closeCalls>>

\* main returns after Run: exit status 0
MainReturn ==
    /\ pc = "returned"
    /\ exitCode' = 0
    /\ pc' = "exited"
    /\ UNCHANGED <<design, sdlUp, ctrlOpen, running, pressedKeys, analogState,
                   lastAnalogPress, currentDirection, now, quitPending, snap,
                   prevSnap, ticks, osDown, calls, cleanupCalls, rangeTodo, quitKeys, holdStart,
                   initLog, alertCalls, alertFailed, closeCalls,
                   sdlQuitCalls>>

Lifecycle ==
    \/ SdlInit \/ NumJoysticks \/ GameControllerOpen \/ MainFatal \/ EnterRun
    \/ DeliverQuit \/ ObserveQuit \/ CleanupRelease \/ CleanupRangeDone
    \/ CleanupClose \/ CleanupSdlQuit \/ MainReturn

Next == Tick(Snapshots, TickGapMs, MaxTicks * TickGapMs, FALSE) \/ Lifecycle

Spec == Init /\ [][Next]_vars

-----------------------------------------------------------------------------
(* Design A under an ideal scheduler: the mapper is constructed and Run is  *)
(* entered; every iteration reads the clock exactly SleepMs after the last; *)
(* the stick moves between neutral and up, the D-pad's up button at will.   *)

\* The clock stops this loop after this many ticks.
MaxRepeatTicks == 62

RepeatSnapshots ==
    {Snapshot(bs, 0, y, 0, 0) :
        bs \in SUBSET {CONTROLLER_BUTTON_DPAD_UP}, y \in {0, -20000}}

InitRepeat ==
    /\ design = "A"
    /\ pc = "running"
    /\ sdlUp = TRUE /\ ctrlOpen = TRUE /\ running = TRUE
    /\ pressedKeys = {}
    /\ analogState = [d \in Directions |-> FALSE]
    /\ lastAnalogPress = <<>>
    /\ currentDirection = DIR_NONE
    /\ now = 0
    /\ quitPending = FALSE
    /\ snap = Neutral /\ prevSnap = Neutral /\ ticks = 0
    /\ osDown = {} /\ calls = <<>> /\ cleanupCalls = <<>>
    /\ rangeTodo = {} /\ quitKeys = {}
    /\ holdStart = <<>>
    /\ exitCode = -1
    /\ initLog = <<<<"sdl.Init", TRUE>>, <<"sdl.NumJoysticks", 1>>,
                   <<"sdl.GameControllerOpen", TRUE>>>>
    /\ alertCalls = 0 /\ alertFailed = FALSE
    /\ closeCalls = 0 /\ sdlQuitCalls = 0

NextRepeat ==
    \/ Tick(RepeatSnapshots, SleepMs, MaxRepeatTicks * SleepMs, TRUE)
    \/ DeliverQuit \/ ObserveQuit \/ CleanupRelease \/ CleanupRangeDone
    \/ CleanupClose \/ CleanupSdlQuit \/ MainReturn

SpecRepeat == InitRepeat /\ [][NextRepeat]_vars

-----------------------------------------------------------------------------
(* Vocabulary of the properties *)

\* The state at the end of a completed iteration of Run
TickEnd == pc = "running" /\ ticks > 0

\* Two or more ticks have completed, so prevSnap is a tick's reading
HasPrev == ticks = 2

Count(cs, c) == Cardinality({i \in DOMAIN cs : cs[i] = c})

Table == IF design = "A" THEN buttonMap ELSE buttonKeyMap

DpadButton(d) ==
    CASE d = "up" -> 11 [] d = "down" -> 12 [] d = "left" -> 13
      [] d = "right" -> 14

DirBit(d) ==
    CASE d = "up" -> 1 [] d = "right" -> 2 [] d = "down" -> 4 [] d = "left" -> 8

\* D-pad or stick asserts direction d in controller state s
Asserted(d, s) == DpadButton(d) \in s.buttons \/ StickBeyond(d, s)

RECURSIVE MaskOf(_)
MaskOf(ds) ==
    IF ds = {} THEN 0
    ELSE LET d == CHOOSE x \in ds : TRUE IN DirBit(d) + MaskOf(ds \ {d})

Cleaning ==
    \/ pc \in {"cleanupKeys", "cleanupClose", "cleanupQuit", "returned"}
    \/ pc = "exited" /\ exitCode = 0

-----------------------------------------------------------------------------
(* C1: in both designs, in every state between Emitter calls (ticks,       *)
(* cleanup steps and after), a key is in pressedKeys iff the last Emitter  *)
(* call made for it was keyDown.                                           *)
C1_PressedIffLastCallDown == \A k \in Keys \cup pressedKeys \cup osDown :
    k \in pressedKeys <=> k \in osDown

C1_Witness ==
    /\ design = "A" /\ pc = "cleanupKeys"
    /\ "up" \in quitKeys /\ "a" \in quitKeys
    /\ pressedKeys # {} /\ pressedKeys # quitKeys

(* C2: at the end of every completed tick each entry of the design's       *)
(* button table (A: 0-14 with the D-pad, B: 0-10) has its key in           *)
(* pressedKeys iff the button is pressed in that tick's snapshot.          *)
C2_ButtonTableMirrored ==
    TickEnd => \A b \in DOMAIN Table :
                   Table[b] \in pressedKeys <=> b \in snap.buttons

(* C3: the cleanup issues exactly one keyUp for each key held when the     *)
(* QuitEvent was observed, no other Emitter call, all of them before the   *)
(* controller is closed, and pressedKeys is empty when Run returns.        *)
C3_ShutdownReleasesHeldKeys ==
    LET ups == {<<"keyUp", k>> : k \in quitKeys} IN
    Cleaning =>
        /\ DOMAIN cleanupCalls \subseteq ups
        /\ \A c \in DOMAIN cleanupCalls : cleanupCalls[c] = 1
        /\ pressedKeys = quitKeys \ {c[2] : c \in DOMAIN cleanupCalls}
        /\ (pc # "cleanupKeys" \/ closeCalls > 0 \/ ~ctrlOpen) =>
              DOMAIN cleanupCalls = ups /\ pressedKeys = {}

C3_Witness ==
    /\ pc = "returned" /\ pressedKeys = {}
    /\ {"shift", "a", "left", "up"} \subseteq quitKeys

(* C4: Design B: a tick that reads the same snapshot as the tick before    *)
(* issues no Emitter call; button 0 yields one keyDown("shift") on the     *)
(* tick where it becomes pressed, nothing while it stays pressed, one      *)
(* keyUp("shift") on the tick where it is released.                        *)
C4_IdenticalTickSilent ==
    (design = "B" /\ TickEnd) =>
        /\ (HasPrev /\ prevSnap = snap) => calls = <<>>
        /\ LET downs == Count(calls, <<"keyDown", "shift">>)
               ups == Count(calls, <<"keyUp", "shift">>)
               was == HasPrev /\ 0 \in prevSnap.buttons
               is == 0 \in snap.buttons
           IN  /\ (is /\ ~was) => downs = 1 /\ ups = 0
               /\ (~is /\ was) => downs = 0 /\ ups = 1
               /\ (is <=> was) => downs = 0 /\ ups = 0

C4_Witness ==
    /\ design = "B" /\ TickEnd /\ HasPrev
    /\ prevSnap = snap /\ 0 \in snap.buttons /\ snap.axis[0] < -8000
    /\ {"shift", "left"} \subseteq pressedKeys /\ calls = <<>>

(* C5: Design B: at the end of every tick each direction key is held iff   *)
(* its D-pad button is pressed or the stick is beyond the deadzone that    *)
(* way, currentDirection is that OR-mask, a repeated snapshot issues no    *)
(* call, and a direction key gets one keyDown when it becomes asserted,    *)
(* also when both sources assert it at once.                               *)
C5_DirectionMerge ==
    (design = "B" /\ TickEnd) =>
        /\ \A d \in Directions : d \in pressedKeys <=> Asserted(d, snap)
        /\ currentDirection = MaskOf({d \in Directions : Asserted(d, snap)})
        /\ (HasPrev /\ prevSnap = snap) =>
              \A i \in DOMAIN calls : calls[i][2] \notin Directions
        /\ \A d \in Directions :
              LET was == HasPrev /\ Asserted(d, prevSnap) IN
              /\ Count(calls, <<"keyDown", d>>) =
                    (IF Asserted(d, snap) /\ ~was THEN 1 ELSE 0)
              /\ Count(calls, <<"keyUp", d>>) =
                    (IF ~Asserted(d, snap) /\ was THEN 1 ELSE 0)

C5_Witness ==
    /\ design = "B" /\ TickEnd /\ HasPrev /\ prevSnap = snap
    /\ 11 \in snap.buttons /\ snap.axis[1] > 8000
    /\ {"up", "down"} \subseteq pressedKeys
    /\ currentDirection = 5

C5_WitnessAgree ==
    /\ design = "B" /\ TickEnd
    /\ 11 \in snap.buttons /\ snap.axis[1] < -8000
    /\ Count(calls, <<"keyDown", "up">>) = 1

(* C6: Design A, ticks every 10 ms: a direction idle before t = 0 whose    *)
(* stick reading stays beyond the deadzone from t = 0 on gets a keyDown    *)
(* at t = 0, none at 0 < t < 500 ms, and one at t = 500, 550, 600, ... ms  *)
(* and at no other tick.                                                   *)
C6_RepeatSchedule ==
    (design = "A" /\ TickEnd) =>
        \A d \in DOMAIN holdStart :
            LET t == now - holdStart[d] IN
            (Count(calls, <<"keyDown", keyMap[d]>>) > 0)
                <=> (t = 0 \/ (t >= 500 /\ (t - 500) % 50 = 0))

\* Stick values paired with every int16 value of the other axis
OtherAxisValues == {-32768, -8001, -8000, 0, 8000, 8001, 32767}

\* Both designs' stick classification on every int16 value v of one axis:
\* positive direction iff v > 8000, negative iff v < -8000, never both
DeadzoneOnInt16 ==
    \A v \in Int16 :
        /\ StickRight(v) <=> v > 8000
        /\ StickDown(v) <=> v > 8000
        /\ StickLeft(v) <=> v < -8000
        /\ StickUp(v) <=> v < -8000
        /\ ~(StickRight(v) /\ StickLeft(v)) /\ ~(StickDown(v) /\ StickUp(v))
        /\ \A w \in OtherAxisValues :
              LET mx == StickMask(DIR_NONE, v, w)
                  my == StickMask(DIR_NONE, w, v)
              IN  /\ HasBit(mx, DIR_RIGHT) <=> v > 8000
                  /\ HasBit(mx, DIR_LEFT) <=> v < -8000
                  /\ HasBit(my, DIR_DOWN) <=> v > 8000
                  /\ HasBit(my, DIR_UP) <=> v < -8000
                  /\ ~(HasBit(mx, DIR_RIGHT) /\ HasBit(mx, DIR_LEFT))
                  /\ ~(HasBit(my, DIR_DOWN) /\ HasBit(my, DIR_UP))

(* C7: both designs: on every int16 stick value the positive direction of  *)
(* an axis is active iff v > 8000 and the negative iff v < -8000, at most  *)
(* one per axis; from an all-neutral state a tick reading X = -20000,      *)
(* Y = 0 and nothing else issues exactly one call, keyDown("left").        *)
C7_DeadzoneBoundary ==
    /\ DeadzoneOnInt16
    /\ TickEnd =>
          /\ design = "A" =>
                \A d \in Directions : analogState[d] <=> StickBeyond(d, snap)
          /\ design = "B" =>
                \A d \in Directions :
                    HasBit(currentDirection, DirBit(d)) <=> Asserted(d, snap)
          /\ (snap = Snapshot({}, -20000, 0, 0, 0)
                /\ (HasPrev => prevSnap = Neutral)) =>
                calls = << <<"keyDown", "left">> >>

C7_Witness ==
    /\ TickEnd /\ design = "A"
    /\ snap = Snapshot({}, -20000, 0, 0, 0) /\ HasPrev /\ prevSnap = Neutral
    /\ pressedKeys = {"left"} /\ analogState["left"]

\* Both designs' trigger classification on every int16 value v of an axis
TriggersOnInt16 ==
    \A v \in Int16 :
        LET s == Snapshot({}, 0, 0, v, v)
            a == areTriggersPressed(s)
            b == handleTriggers([pressedKeys |-> {}, down |-> {}, calls |-> <<>>],
                                <<leftTriggerAxis, rightTriggerAxis>>, s)
        IN  /\ a.l2Pressed <=> v > 16383
            /\ a.r2Pressed <=> v > 16383
            /\ "a" \in b.pressedKeys <=> v > 16383
            /\ "s" \in b.pressedKeys <=> v > 16383
            /\ (v > TRIGGER_THRESHOLD) <=> (v > triggerThreshold)

(* C8: both designs: at the end of every tick "a" is held iff axis 4 reads *)
(* more than 16383 and "s" iff axis 5 does; 32767/2 and 16383 classify     *)
(* every int16 value alike; a left trigger going 0 -> 20000 -> 0 yields    *)
(* one keyDown("a"), then one keyUp("a").                                  *)
C8_TriggerMapper ==
    /\ TriggersOnInt16
    /\ TickEnd =>
          /\ "a" \in pressedKeys <=> snap.axis[4] > 16383
          /\ "s" \in pressedKeys <=> snap.axis[5] > 16383
          /\ LET downs == Count(calls, <<"keyDown", "a">>)
                 ups == Count(calls, <<"keyUp", "a">>)
                 was == HasPrev /\ prevSnap.axis[4] > 16383
                 is == snap.axis[4] > 16383
             IN  /\ (is /\ ~was) => downs = 1 /\ ups = 0
                 /\ (~is /\ was) => downs = 0 /\ ups = 1
                 /\ (is <=> was) => downs = 0 /\ ups = 0

C8_Witness ==
    /\ TickEnd /\ design = "A" /\ HasPrev
    /\ prevSnap.axis[4] = 20000 /\ snap.axis[4] = 0
    /\ calls = << <<"keyUp", "a">> >> /\ "a" \notin pressedKeys

\* An entry of initLog that makes NewControllerMapper return an error
Failed(e) == IF e[1] = "sdl.NumJoysticks" THEN e[2] < 1 ELSE ~e[2]

InitFailed == \E i \in DOMAIN initLog : Failed(initLog[i])

(* C9: both designs: if sdl.Init fails, no joystick is found or opening    *)
(* controller 0 fails, the process ends with a non-zero exit status, Run   *)
(* is never entered, no Emitter call is made and no initialization call    *)
(* is made twice or after the failure; a failing alert command changes     *)
(* nothing of this.                                                        *)
C9_FatalInit ==
    /\ \A i, j \in DOMAIN initLog : i # j => initLog[i][1] # initLog[j][1]
    /\ InitFailed =>
          /\ \A i \in DOMAIN initLog : Failed(initLog[i]) <=> i = Len(initLog)
          /\ pc \in {"initFailed", "exited"}
          /\ exitCode = (IF pc = "exited" THEN 1 ELSE -1)
          /\ alertCalls = (IF pc = "exited" THEN 2 ELSE 1)
          /\ ~running /\ ~ctrlOpen
          /\ ticks = 0 /\ calls = <<>> /\ cleanupCalls = <<>>
          /\ osDown = {} /\ pressedKeys = {}
          /\ closeCalls = 0 /\ sdlQuitCalls = 0
    /\ ~InitFailed => exitCode \in {-1, 0} /\ alertCalls = 0 /\ ~alertFailed
    /\ pc \in {"constructed", "running"} \/ Cleaning =>
          Len(initLog) = 3 /\ ~InitFailed

C9_Witness ==
    /\ pc = "exited" /\ exitCode = 1 /\ alertFailed
    /\ Len(initLog) = 2 /\ initLog[2] = <<"sdl.NumJoysticks", 0>>

C10_Released ==
    /\ closeCalls \in {0, 1} /\ sdlQuitCalls \in {0, 1}
    /\ pc \in {"constructed", "running", "cleanupKeys", "cleanupClose"} =>
          closeCalls = 0 /\ sdlQuitCalls = 0 /\ ctrlOpen /\ sdlUp
    /\ closeCalls = 1 =>
          /\ ~ctrlOpen
          /\ pc \in {"cleanupQuit", "returned", "exited"}
          /\ pressedKeys = {} /\ osDown = {} /\ rangeTodo = {}
          /\ DOMAIN cleanupCalls = {<<"keyUp", k>> : k \in quitKeys}
    /\ sdlQuitCalls = 1 => closeCalls = 1 /\ ~sdlUp
    /\ pc = "cleanupQuit" => closeCalls = 1 /\ sdlQuitCalls = 0 /\ sdlUp
    /\ (pc = "returned" \/ (pc = "exited" /\ exitCode = 0)) =>
          closeCalls = 1 /\ sdlQuitCalls = 1

C10_NothingAfterClose ==
    closeCalls > 0 =>
        UNCHANGED <<snap, prevSnap, ticks, now, osDown, calls, cleanupCalls,
                    pressedKeys, ctrlOpen, closeCalls>>

(* C10: both designs: once Run is entered the controller is closed once    *)
(* and the subsystem shut down once, only when Run is left, in the order   *)
(* key release, Close, sdl.Quit; after Close there is no controller read   *)
(* and no Emitter call.                                                    *)
C10_ResourceRelease == []C10_Released /\ [][C10_NothingAfterClose]_vars

C10_Witness ==
    /\ pc = "exited" /\ exitCode = 0 /\ design = "B"
    /\ closeCalls = 1 /\ sdlQuitCalls = 1
    /\ Cardinality(quitKeys) >= 2 /\ pressedKeys = {}

\* The Emitter calls of cs made for key k
CallsFor(cs, k) == {i \in DOMAIN cs : cs[i][2] = k}

\* A step that is one iteration of Design A's loop: only it reads the clock
TickStepA == design = "A" /\ pc = "running" /\ now' # now

C11_ActiveStep ==
    TickStepA =>
        \A d \in Directions :
            (/\ analogState[d] /\ d \in DOMAIN lastAnalogPress
             /\ StickBeyond(d, snap')
             /\ now' - lastAnalogPress[d] < initialDelay)
            => /\ CallsFor(calls', keyMap[d]) = {}
               /\ keyMap[d] \in pressedKeys'

(* C11: Design A: in every tick that finds a direction Active (analogState *)
(* true), reads the stick beyond the deadzone in that direction and reads  *)
(* the clock less than 500 ms after the recorded press timestamp, no       *)
(* keyDown and no keyUp is issued for the direction's key and the key is   *)
(* in pressedKeys at the end of the tick.                                  *)
C11_ActiveHoldSilent == [][C11_ActiveStep]_vars

(* C12: Design A: at the end of every tick each direction key is in        *)
(* pressedKeys iff its D-pad button is pressed or the stick is beyond the  *)
(* deadzone that way; while a D-pad button stays pressed, the stick        *)
(* leaving the same direction causes no keyUp for the key; no tick issues  *)
(* two keyDowns for a direction key without a keyUp between them.          *)
C12_DirectionSources ==
    (design = "A" /\ TickEnd) =>
        \A d \in Directions :
            /\ d \in pressedKeys <=> Asserted(d, snap)
            /\ (/\ HasPrev
                /\ DpadButton(d) \in prevSnap.buttons \cap snap.buttons
                /\ StickBeyond(d, prevSnap) /\ ~StickBeyond(d, snap))
               => Count(calls, <<"keyUp", d>>) = 0
            /\ \A i, j \in CallsFor(calls, d) :
                  (i < j /\ calls[i][1] = "keyDown" /\ calls[j][1] = "keyDown")
                  => \E h \in (i + 1)..(j - 1) : calls[h] = <<"keyUp", d>>

-----------------------------------------------------------------------------
(* Design A under a scheduler that may wake the loop late: every iteration *)
(* reads the clock SleepMs or twice SleepMs after the last; only the stick *)
(* moves, between neutral and up.                                          *)

\* The clock stops this loop at this time, in ms.
MaxCadenceMs == 600

\* Time between the clock readings of two consecutive iterations
CadenceGaps == {SleepMs, 2 * SleepMs}

CadenceSnapshots == {Snapshot({}, 0, y, 0, 0) : y \in {0, -20000}}

NextCadence ==
    \/ \E gap \in CadenceGaps : Tick(CadenceSnapshots, gap, MaxCadenceMs, TRUE)
    \/ DeliverQuit \/ ObserveQuit \/ CleanupRelease \/ CleanupRangeDone
    \/ CleanupClose \/ CleanupSdlQuit \/ MainReturn

SpecCadence == InitRepeat /\ [][NextCadence]_vars

\* The instants, relative to the start of a hold, at which a repeat is due
RepeatGrid == {initialDelay + repeatDelay * k : k \in 0..(MaxCadenceMs \div repeatDelay)}

C13_CadenceStep ==
    TickStepA =>
        \A d \in DOMAIN holdStart \cap DOMAIN holdStart' :
            LET t1 == now - holdStart[d]
                t2 == now' - holdStart[d]
            IN  (Count(calls', <<"keyDown", keyMap[d]>>) > 0)
                    <=> (\E g \in RepeatGrid : t1 < g /\ g <= t2)

(* C13: Design A: for a direction idle before t0 and held from t0 on, with *)
(* ticks at any times, a tick issues a keyDown for the direction's key iff *)
(* an instant t0 + 500 + 50k ms lies after the previous tick and not after *)
(* this one: the k-th repeat comes at the first tick at or after           *)
(* t0 + 500 + 50k ms, and a late tick does not delay the later repeats.    *)
C13_FixedCadence == [][C13_CadenceStep]_vars

\* Design A: analogState[d] is true iff lastAnalogPress has an entry for d
C14_FlagIffStamp ==
    design = "A" =>
        \A d \in Directions : analogState[d] <=> d \in DOMAIN lastAnalogPress

\* Design A, one tick, the parts of the lifecycle other than the keyDown
\* of the Idle->Active transition
C14_Transitions(d) ==
    /\ (~analogState[d] /\ StickBeyond(d, snap')) =>
          /\ analogState'[d] /\ lastAnalogPress'[d] = now'
          /\ keyMap[d] \in pressedKeys'
    /\ (~analogState[d] /\ ~StickBeyond(d, snap')) =>
          ~analogState'[d] /\ d \notin DOMAIN lastAnalogPress'
    /\ (analogState[d] /\ ~StickBeyond(d, snap')) =>
          /\ ~analogState'[d] /\ d \notin DOMAIN lastAnalogPress'
          /\ keyMap[d] \notin pressedKeys'
    /\ (analogState[d] /\ StickBeyond(d, snap')) =>
          /\ analogState'[d] /\ d \in DOMAIN lastAnalogPress'
          /\ IF now' - lastAnalogPress[d] >= initialDelay
             THEN /\ lastAnalogPress'[d] = now' - initialDelay + repeatDelay
                  /\ Count(calls', <<"keyDown", keyMap[d]>>) >= 1
                  /\ keyMap[d] \in pressedKeys'
             ELSE lastAnalogPress'[d] = lastAnalogPress[d]

C14_StepOriginal ==
    TickStepA =>
        \A d \in Directions :
            /\ C14_Transitions(d)
            /\ (~analogState[d] /\ StickBeyond(d, snap')) =>
                  Count(calls', <<"keyDown", keyMap[d]>>) = 1

C14_Step ==
    TickStepA =>
        \A d \in Directions :
            /\ C14_Transitions(d)
            /\ (~analogState[d] /\ StickBeyond(d, snap')) =>
                  Count(calls', <<"keyDown", keyMap[d]>>) =
                      (IF keyMap[d] \in pressedKeys
                          /\ DpadButton(d) \in snap'.buttons
                       THEN 0 ELSE 1)

(* C14 as stated: Design A: analogState[d] is true iff lastAnalogPress has *)
(* an entry for d; the tick that finds d idle and the stick active creates *)
(* the entry with the tick's clock reading and issues one keyDown for the  *)
(* key; the first tick that finds the stick inactive releases the key,     *)
(* clears the flag and removes the entry; a repeat needs 500 ms since the  *)
(* entry.                                                                  *)
C14_LifecycleAsStated == []C14_FlagIffStamp /\ [][C14_StepOriginal]_vars

(* C14: Design A: as above, but the tick of the Idle->Active transition    *)
(* issues the keyDown unless the key is already held and the D-pad button  *)
(* of the direction is pressed in that tick: then the key stays held and   *)
(* no call is made for it.                                                 *)
C14_Lifecycle == []C14_FlagIffStamp /\ [][C14_Step]_vars

C14_Witness ==
    /\ design = "A" /\ TickEnd /\ HasPrev
    /\ CONTROLLER_BUTTON_DPAD_UP \in prevSnap.buttons \cap snap.buttons
    /\ ~StickBeyond("up", prevSnap) /\ StickBeyond("up", snap)
    /\ analogState["up"] /\ lastAnalogPress = [d \in {"up"} |-> now]
    /\ "up" \in pressedKeys /\ calls = <<>>

-----------------------------------------------------------------------------
(* Both designs with the loop iteration in two steps, the event drain and  *)
(* the rest, so that a QuitEvent can be posted between them.               *)

QuitSnapshots ==
    {Snapshot(bs, 0, y, l2, 0) :
        bs \in SUBSET {0}, y \in {0, -20000}, l2 \in TriggerLValues}

NextQuit ==
    \/ DrainEvents(TickGapMs, MaxTicks * TickGapMs)
    \/ Sample(QuitSnapshots, TickGapMs, MaxTicks * TickGapMs)
    \/ Lifecycle

SpecQuit == Init /\ [][NextQuit]_vars

\* The keys the tick's snapshot calls for, apart from the direction keys
PlainKeysMirrored(s, held) ==
    /\ \A b \in 0..10 : Table[b] \in held <=> b \in s.buttons
    /\ "a" \in held <=> s.axis[L2_AXIS] > TRIGGER_THRESHOLD
    /\ "s" \in held <=> s.axis[R2_AXIS] > TRIGGER_THRESHOLD

C15_QuitStep ==
    \* Run stops only in the drain at the top of an iteration
    /\ (running /\ ~running') =>
          /\ pc = "running" /\ quitPending /\ ~quitPending'
          /\ pc' = "cleanupKeys"
          \* and that iteration samples nothing and calls nothing
          /\ UNCHANGED <<snap, prevSnap, ticks, now, pressedKeys, osDown,
                         analogState, lastAnalogPress, currentDirection>>
          /\ calls' = <<>>
    \* an iteration past its drain is left only by completing
    /\ (pc = "sampling" /\ pc' # "sampling") =>
          /\ pc' = "running" /\ running' /\ quitPending' = quitPending
          /\ ticks' > 0
          /\ PlainKeysMirrored(snap', pressedKeys')
          /\ design = "A" =>
                \A d \in Directions : analogState'[d] <=> StickBeyond(d, snap')
          /\ design = "B" =>
                \A d \in Directions : d \in pressedKeys' <=> Asserted(d, snap')
    /\ (pc = "sampling" /\ pc' = "sampling") =>
          UNCHANGED <<snap, ticks, pressedKeys, osDown, calls, running>>

C15_OnlyKeyUpsAfterQuit ==
    Cleaning => /\ \A i \in DOMAIN calls : calls[i][1] = "keyUp"
                /\ \A c \in DOMAIN cleanupCalls : c[1] = "keyUp"

(* C15: both designs: Run stops only in the event drain at the top of an   *)
(* iteration; the iteration that meets the QuitEvent reads no button or    *)
(* axis and makes no Emitter call, and only keyUps follow; an iteration    *)
(* whose drain met no QuitEvent completes its button, trigger and          *)
(* direction handling even if a QuitEvent is posted meanwhile, and the     *)
(* event stays queued until the next drain.                                *)
C15_QuitDeferred == []C15_OnlyKeyUpsAfterQuit /\ [][C15_QuitStep]_vars

C15_Witness ==
    /\ pc = "sampling" /\ quitPending /\ ticks > 0
    /\ {"shift", "a"} \subseteq pressedKeys

-----------------------------------------------------------------------------
(* The same with the process scheduled fairly: a step of the program that  *)
(* stays possible is eventually taken; the environment owes no QuitEvent.  *)

\* Every step of the program but the handlers of an iteration
ProgramStep ==
    \/ SdlInit \/ NumJoysticks \/ GameControllerOpen \/ MainFatal \/ EnterRun
    \/ DrainEvents(TickGapMs, MaxTicks * TickGapMs)
    \/ ObserveQuit \/ CleanupRelease \/ CleanupRangeDone
    \/ CleanupClose \/ CleanupSdlQuit \/ MainReturn

\* The handlers of an iteration have no loop that waits and no blocking
\* call but the sleep: an iteration past its drain always gets back to the
\* top of the loop.  (This is weak fairness of Sample, which is enabled
\* exactly when pc = "sampling".)
SpecQuitFair ==
    Init /\ [][NextQuit]_vars /\ WF_vars(ProgramStep)
         /\ []<>(pc # "sampling")

InLoop == pc \in {"running", "sampling"}

C16_LeaveStep ==
    (InLoop /\ ~InLoop') =>
        /\ pc = "running" /\ quitPending /\ ~quitPending'
        /\ running /\ ~running' /\ pc' = "cleanupKeys"

C16_QuitQueued == quitPending /\ pc \in {"constructed", "running", "sampling"}

C16_Returned ==
    /\ pc = "exited" /\ exitCode = 0
    /\ pressedKeys = {} /\ osDown = {} /\ ~ctrlOpen /\ ~sdlUp

(* C16: both designs: after a successful initialization Run leaves its     *)
(* loop only in a step that takes a QuitEvent from the queue, so without   *)
(* a QuitEvent it never returns; once a QuitEvent is queued, the fairly    *)
(* scheduled process eventually returns from Run with pressedKeys empty,   *)
(* the controller closed and SDL shut down.                                *)
C16_Termination == [][C16_LeaveStep]_vars /\ (C16_QuitQueued ~> C16_Returned)

C16_Witness ==
    /\ C16_Returned /\ design = "A" /\ ticks > 0
    /\ {"shift", "a"} \subseteq quitKeys

\* The Emitter's set of keys that are down after the calls cs, made in
\* order from the set down; ok tells that every keyDown found its key up
\* and every keyUp found its key down
RECURSIVE Replay(_, _)
Replay(down, cs) ==
    IF cs = <<>> THEN [ok |-> TRUE, down |-> down]
    ELSE LET c == Head(cs) IN
         IF c[1] = "keyDown"
         THEN IF c[2] \in down THEN [ok |-> FALSE, down |-> down]
              ELSE Replay(down \cup {c[2]}, Tail(cs))
         ELSE IF c[2] \notin down THEN [ok |-> FALSE, down |-> down]
              ELSE Replay(down \ {c[2]}, Tail(cs))

\* A step in which the program may call the Emitter: an iteration of the
\* loop or a visit of the deferred range
EmitterStep ==
    \/ pc = "running" /\ pc' = "running" /\ quitPending' = quitPending
    \/ pc = "cleanupKeys" /\ rangeTodo' # rangeTodo

C17_AlternationStep ==
    /\ EmitterStep =>
          LET r == Replay(osDown, calls') IN r.ok /\ r.down = osDown'
    /\ ~EmitterStep => osDown' = osDown

(* C17: both designs: no Emitter call is made before the first tick, and   *)
(* in every tick and every step of the shutdown each keyDown is made for a *)
(* key whose last call was not keyDown and each keyUp for a key whose last *)
(* call was keyDown, so the calls for one key alternate keyDown, keyUp,    *)
(* ... starting with keyDown, the repeat pulse of Design A included.       *)
C17_CallsAlternate ==
    /\ [](ticks = 0 => osDown = {} /\ calls = <<>>)
    /\ [][C17_AlternationStep]_vars

C17_Witness ==
    /\ design = "A" /\ TickEnd
    /\ calls = << <<"keyUp", "up">>, <<"keyDown", "up">> >>
    /\ now - lastAnalogPress["up"] = initialDelay - repeatDelay

\* Design B: the keys the controller state s calls for
KeysOfSnapshot(s) ==
    {buttonKeyMap[b] : b \in s.buttons \cap DOMAIN buttonKeyMap}
    \cup {triggerKeyMap[a] : a \in {x \in DOMAIN triggerKeyMap :
                                       s.axis[x] > triggerThreshold}}
    \cup {d \in Directions : Asserted(d, s)}

\* Design B: the mapper as NewControllerMapper returns it
NewMapper ==
    [pressedKeys |-> {}, analogState |-> [d \in Directions |-> FALSE],
     lastAnalogPress |-> <<>>, currentDirection |-> DIR_NONE,
     down |-> {}, calls |-> <<>>]

(* C18: Design B: at the end of every tick, whatever ticks came before,    *)
(* pressedKeys and currentDirection are the values determined by that      *)
(* tick's snapshot alone: the keys of the pressed buttons, of the triggers  *)
(* beyond the threshold and of the asserted directions, the same values a   *)
(* freshly constructed mapper reaches from the same snapshot.               *)
C18_SnapshotDetermines ==
    (design = "B" /\ TickEnd) =>
        /\ pressedKeys = KeysOfSnapshot(snap)
        /\ currentDirection = MaskOf({d \in Directions : Asserted(d, snap)})
        /\ \A order \in VisitOrders(11), trigOrder \in TriggerOrders :
              LET m == RunIterationB(NewMapper, order, trigOrder, snap)
              IN  /\ m.pressedKeys = pressedKeys
                  /\ m.currentDirection = currentDirection

C18_Witness ==
    /\ design = "B" /\ TickEnd /\ HasPrev
    /\ 0 \in prevSnap.buttons /\ 0 \notin snap.buttons
    /\ prevSnap.axis[L2_AXIS] > triggerThreshold
    /\ StickBeyond("left", snap)
    /\ pressedKeys = {"a", "left"} /\ currentDirection = DIR_LEFT

-----------------------------------------------------------------------------
(* Both designs with two plain buttons, the D-pad's up, the stick's up and *)
(* the left trigger, for the passes over the tables.                       *)

OrderSnapshots ==
    {Snapshot(bs, 0, y, l2, 0) :
        bs \in SUBSET {0, 1, CONTROLLER_BUTTON_DPAD_UP}, y \in {0, -20000},
        l2 \in TriggerLValues}

NextOrder ==
    Tick(OrderSnapshots, TickGapMs, MaxTicks * TickGapMs, FALSE) \/ Lifecycle

SpecOrder == Init /\ [][NextOrder]_vars

\* More of the orders in which a range over a map of n keys 0..n-1 may
\* visit: the ascending order started at key r
Rotated(n, r) == [i \in 1..n |-> (i - 1 + r) % n]
OrderRotations == {1, 2, 11, 12}
OrderSample(n) == VisitOrders(n) \cup {Rotated(n, r) : r \in OrderRotations}

Bag(cs) == AddCalls(<<>>, cs)

\* The button pass (and B's trigger pass) of the iteration that reads s in
\* the current state gives the same pressedKeys and the same calls, as a
\* bag, in every visiting order
OrderIndependent(s) ==
    LET n == Cardinality(DOMAIN Table) IN
    \A m0 \in {IF design = "A" THEN Mapper
               ELSE handleDirectionalInputs(Mapper, s)} :
    \A ref \in {buttonLoop(m0, Table, Ascending(n), s)} :
        /\ \A order \in OrderSample(n) :
              \A r \in {buttonLoop(m0, Table, order, s)} :
                  /\ r.pressedKeys = ref.pressedKeys
                  /\ r.down = ref.down
                  /\ Bag(r.calls) = Bag(ref.calls)
        /\ design = "B" =>
              \A t1 \in {handleTriggers([ref EXCEPT !.calls = <<>>],
                                        <<leftTriggerAxis, rightTriggerAxis>>, s)} :
              \A t2 \in {handleTriggers([ref EXCEPT !.calls = <<>>],
                                        <<rightTriggerAxis, leftTriggerAxis>>, s)} :
                  /\ t1.pressedKeys = t2.pressedKeys
                  /\ Bag(t1.calls) = Bag(t2.calls)

\* No table maps two indices to one key
TablesInjective ==
    /\ \A b1, b2 \in DOMAIN buttonMap :
          buttonMap[b1] = buttonMap[b2] => b1 = b2
    /\ \A b1, b2 \in DOMAIN buttonKeyMap :
          buttonKeyMap[b1] = buttonKeyMap[b2] => b1 = b2
    /\ \A a1, a2 \in DOMAIN triggerKeyMap :
          triggerKeyMap[a1] = triggerKeyMap[a2] => a1 = a2

C19_OrderStep ==
    (pc = "running" /\ pc' = "running" /\ quitPending' = quitPending
        /\ ticks' > 0)
    => OrderIndependent(snap')

(* C19: both designs: every table maps distinct indices to distinct keys,  *)
(* and in every tick, from every state the loop reaches, the pass over the *)
(* button table (and B's pass over the trigger table) ends with the same   *)
(* pressedKeys and makes the same Emitter calls, counted per key and kind, *)
(* whatever the order in which the table is visited.                       *)
C19_OrderIndependence == []TablesInjective /\ [][C19_OrderStep]_vars

C19_Witness ==
    /\ design = "A" /\ TickEnd /\ HasPrev
    /\ calls = << <<"keyUp", "up">>, <<"keyDown", "space">> >>
    /\ {"shift", "space"} \subseteq pressedKeys

====
